---- MODULE Spec2Model ----
(***************************************************************************)
(* Model of the stock-ai-agent batch pipeline.  The state is the set of    *)
(* CSV files the scripts exchange; one action per script's main().         *)
(*                                                                         *)
(* Numbers.  A number is an exact rational <<n, d>> in lowest terms with   *)
(* d > 0; a nullable number (a pandas cell that may be NaN) is the empty   *)
(* tuple Null or a rational.  Prices are positive.                         *)
(*                                                                         *)
(* Symbols.  A symbol "JKH.N0000" is the pair <<base, series>> of small    *)
(* naturals ordered like the strings they stand for; series 0 is a symbol  *)
(* without a dot.  Company names are strings of CompanyNames, which lists  *)
(* them in plain string order.                                             *)
(***************************************************************************)
EXTENDS Integers, Sequences, FiniteSets, TLC

VARIABLES
    latest_signals,      \* data/processed/latest_signals.csv
    indicators_weekly,   \* data/processed/indicators_weekly.csv
    company_master,      \* data/reference/company_master.csv
    watchlist,           \* data/processed/watchlist_top20.csv
    daily_prices,        \* data/raw/daily_prices.csv
    indicators,          \* data/processed/indicators.csv
    coverage_report,     \* data/processed/coverage_report.csv
    cse_symbols,         \* config/cse_symbols.csv
    failed_prices,       \* data/raw/failed_prices.csv
    failed_history,      \* data/raw/failed_prices_history.csv
    ingested,            \* history: the price rows appended by each collect_prices run
    iterations,          \* the last collect_prices run, one entry per row of the symbol list
    faulty,              \* the <<stage, symbol>> groups whose computation raises
    raised,              \* the uncaught exception that ended the last run, if any
    ran                  \* the scripts that have completed a run

vars == <<latest_signals, indicators_weekly, company_master, watchlist,
          daily_prices, indicators, coverage_report, cse_symbols,
          failed_prices, failed_history, ingested, iterations, faulty, raised,
          ran>>

\* The files of collect_prices.py, which no other script writes.
collect_files ==
    <<cse_symbols, failed_prices, failed_history, ingested, iterations>>

\* No computation raises and no run has been ended by an exception.
NoFaults == faulty = {} /\ raised = <<>>

\* collect_prices.py has not run and has no symbol list.
NotCollected ==
    /\ cse_symbols = <<>>
    /\ failed_prices = <<>>
    /\ failed_history = <<>>
    /\ ingested = <<>>
    /\ iterations = <<>>

(***************************************************************************)
(* Nullable numbers and pandas' comparisons: any comparison with NaN is    *)
(* False, and .fillna(False).astype(int) turns the result into 0 or 1.     *)
(***************************************************************************)
Null == <<>>

IsNull(x) == x = Null

Abs(k) == IF k < 0 THEN -k ELSE k

RECURSIVE GCD(_, _)
GCD(a, b) == IF b = 0 THEN a ELSE GCD(b, a % b)

Rat(n, d) ==
    LET g == GCD(Abs(n), Abs(d))
        sgn == IF d < 0 THEN -1 ELSE 1
    IN  <<(sgn * n) \div g, (sgn * d) \div g>>

RAdd(a, b) == Rat(a[1] * b[2] + b[1] * a[2], a[2] * b[2])

RSub(a, b) == Rat(a[1] * b[2] - b[1] * a[2], a[2] * b[2])

RMul(a, b) == Rat(a[1] * b[1], a[2] * b[2])

RDiv(a, b) == Rat(a[1] * b[2], a[2] * b[1])

RLt(a, b) == a[1] * b[2] < b[1] * a[2]

RLe(a, b) == a[1] * b[2] <= b[1] * a[2]

Gt(a, b) == ~IsNull(a) /\ ~IsNull(b) /\ RLt(b, a)

Lt(a, b) == ~IsNull(a) /\ ~IsNull(b) /\ RLt(a, b)

Ge(a, b) == ~IsNull(a) /\ ~IsNull(b) /\ RLe(b, a)

Le(a, b) == ~IsNull(a) /\ ~IsNull(b) /\ RLe(a, b)

AsInt(b) == IF b THEN 1 ELSE 0

\* The values f[1], ..., f[n] of a function over 1..n, as a sequence
AsSeq(f) == f \o <<>>

(***************************************************************************)
(* A stable sort, as DataFrame.sort_values over several keys is: rows that *)
(* compare equal keep their input order.  before[i, j] says that row i of  *)
(* s sorts strictly before row j.                                          *)
(***************************************************************************)
SortValues(s, before) ==
    LET n == Len(s)
        rank == AsSeq([i \in 1..n |->
                    Cardinality({j \in 1..n :
                        before[j, i] \/ (j < i /\ ~before[i, j])})])
        order == AsSeq([k \in 1..n |-> CHOOSE i \in 1..n : rank[i] = k - 1])
    IN  AsSeq([k \in 1..n |-> s[order[k]]])

\* pd.concat of the n parts f[1..n]
Flatten(f, n) ==
    LET F[i \in 0..n] == IF i = 0 THEN <<>> ELSE F[i - 1] \o f[i]
    IN  F[n]

Tail_n(s, n) == SubSeq(s, IF Len(s) < n THEN 1 ELSE Len(s) - n + 1, Len(s))

Head_n(s, n) == SubSeq(s, 1, IF Len(s) < n THEN Len(s) ELSE n)

SymbolLess(a, b) == a[1] < b[1] \/ (a[1] = b[1] /\ a[2] < b[2])

\* latest.sort_values("symbol")
SortedBySymbol(rows) ==
    SortValues(rows,
        [i, j \in 1..Len(rows) |-> SymbolLess(rows[i].symbol, rows[j].symbol)])

\* str.split(".").str[0]
SymbolKey(symbol) == symbol[1]

CompanyNames == <<"Alpha", "Beta", "Delta", "Gamma", "Omega">>

NameRank(n) == CHOOSE i \in 1..Len(CompanyNames) : CompanyNames[i] = n

\* ascending company_name, NaN last (na_position="last")
NameBefore(a, b) ==
    /\ ~IsNull(a)
    /\ (IsNull(b) \/ NameRank(a[1]) < NameRank(b[1]))

(***************************************************************************)
(* build_indicators.per_symbol: the two categorical labels.                *)
(***************************************************************************)
RsiOverbought == 70

RsiOversold == 30

\* np.where(sma_50 <= sma_200, "DOWN", "UP"): unknown falls to "UP"
TrendLongUnknownUp(sma_50, sma_200) == IF Le(sma_50, sma_200) THEN "DOWN" ELSE "UP"

\* np.where(g["sma_50"] > g["sma_200"], "UP", "DOWN")
TrendLong(sma_50, sma_200) == IF Gt(sma_50, sma_200) THEN "UP" ELSE "DOWN"

RsiState(rsi_14) ==
    IF Ge(rsi_14, Rat(RsiOverbought, 1)) THEN "OVERBOUGHT"
    ELSE IF Le(rsi_14, Rat(RsiOversold, 1)) THEN "OVERSOLD"
    ELSE "NORMAL"

(***************************************************************************)
(* build_indicators.py.  A column is a sequence of nullable numbers, one   *)
(* per row of the group.  Of per_symbol's columns the model keeps ret_1d,  *)
(* sma_50, sma_200, rsi_14, atr_14, high_252, dist_to_52w_high,            *)
(* peak_close, drawdown, vol_sma_20, vol_spike, trend_long and rsi_state,  *)
(* and carries date, symbol, close, source, yahoo_ticker and volume        *)
(* through.  A raw file has the columns collect_prices writes and at most  *)
(* a volume column besides (never high and low); every close is a          *)
(* positive price and every volume a non-negative count.                   *)
(***************************************************************************)
RsiPeriod == 14

Sma50Window == 50

Sma200Window == 200

High252Window == 252

VolSmaWindow == 20

\* Float infinities, as the quotients 1/0 and -1/0.
Inf == <<1, 0>>

NegInf == <<-1, 0>>

IsInf(x) == x = Inf \/ x = NegInf

\* Series / Series in float arithmetic: NaN propagates, 0/0 is NaN and
\* x/0 is an infinity of the sign of x.
FloatDiv(x, y) ==
    IF IsNull(x) \/ IsNull(y) THEN Null
    ELSE IF y[1] = 0
         THEN IF x[1] = 0 THEN Null ELSE IF x[1] > 0 THEN Inf ELSE NegInf
    ELSE RDiv(x, y)

\* Series.diff()
Diff(x) ==
    [t \in 1..Len(x) |->
        IF t = 1 \/ IsNull(x[t]) \/ IsNull(x[t - 1]) THEN Null
        ELSE RSub(x[t], x[t - 1])]

\* Series.pct_change()
PctChange(x) ==
    [t \in 1..Len(x) |->
        IF t = 1 \/ IsNull(x[t]) \/ IsNull(x[t - 1]) THEN Null
        ELSE RSub(RDiv(x[t], x[t - 1]), <<1, 1>>)]

\* Series.clip(lower=0): NaN stays NaN
ClipLower0(x) ==
    [t \in 1..Len(x) |->
        IF IsNull(x[t]) THEN Null
        ELSE IF RLt(x[t], <<0, 1>>) THEN <<0, 1>> ELSE x[t]]

Neg(x) ==
    [t \in 1..Len(x) |-> IF IsNull(x[t]) THEN Null ELSE RSub(<<0, 1>>, x[t])]

\* Series.ewm(alpha=1/period, adjust=False).mean(): NaN until the first
\* observation, which seeds the recurrence; a later NaN repeats the value.
EwmStep(prev, x, period) ==
    IF IsNull(prev) THEN x
    ELSE IF IsNull(x) THEN prev
    ELSE RDiv(RAdd(RMul(<<period - 1, 1>>, prev), x), <<period, 1>>)

RECURSIVE EwmFrom(_, _, _, _, _)
EwmFrom(prev, x, period, from, to) ==
    IF from > to THEN <<>>
    ELSE IF from = to THEN <<EwmStep(prev, x[from], period)>>
    ELSE LET mid == (from + to) \div 2
             left == EwmFrom(prev, x, period, from, mid)
         IN  left \o EwmFrom(left[Len(left)], x, period, mid + 1, to)

\* ewm(alpha=1/period, adjust=False, min_periods=period).mean()
EwmMinPeriods(x, period) ==
    LET y == EwmFrom(Null, x, period, 1, Len(x))
    IN  [t \in 1..Len(x) |->
            IF Cardinality({k \in 1..t : ~IsNull(x[k])}) < period THEN Null
            ELSE y[t]]

Ewm(x, period) == EwmFrom(Null, x, period, 1, Len(x))

\* avg_loss used as it is, without .replace(0, np.nan)
KeepZero(x) == x

\* Series.replace(0, np.nan)
ReplaceZero(x) ==
    [t \in 1..Len(x) |-> IF x[t] = <<0, 1>> THEN Null ELSE x[t]]

\* 100 - (100 / 1 + rs) in place of 100 - (100 / (1 + rs))
RsiMisparenthesized(series, period) ==
    LET delta == Diff(series)
        gain == ClipLower0(delta)
        loss == ClipLower0(Neg(delta))
        avg_gain == Ewm(gain, period)
        avg_loss == ReplaceZero(Ewm(loss, period))
    IN  [t \in 1..Len(series) |->
            IF IsNull(avg_gain[t]) \/ IsNull(avg_loss[t]) THEN Null
            ELSE LET rs == RDiv(avg_gain[t], avg_loss[t])
                 IN  RSub(<<100, 1>>, RAdd(RDiv(<<100, 1>>, <<1, 1>>), rs))]

\* rsi(series, period)
Rsi(series, period) ==
    LET delta == Diff(series)
        gain == ClipLower0(delta)
        loss == ClipLower0(Neg(delta))
        avg_gain == Ewm(gain, period)
        avg_loss == ReplaceZero(Ewm(loss, period))
    IN  [t \in 1..Len(series) |->
            LET rs == FloatDiv(avg_gain[t], avg_loss[t])
            IN  IF IsNull(rs) THEN Null
                ELSE IF rs = Inf THEN <<100, 1>>
                ELSE RSub(<<100, 1>>, RDiv(<<100, 1>>, RAdd(<<1, 1>>, rs)))]

RECURSIVE SumOf(_, _, _)
SumOf(x, from, to) ==
    IF from > to THEN <<0, 1>>
    ELSE IF from = to THEN x[from]
    ELSE LET mid == (from + to) \div 2
         IN  RAdd(SumOf(x, from, mid), SumOf(x, mid + 1, to))

RECURSIVE RMaxOf(_, _, _)
RMaxOf(x, from, to) ==
    IF from = to THEN x[from]
    ELSE LET mid == (from + to) \div 2
             left == RMaxOf(x, from, mid)
             right == RMaxOf(x, mid + 1, to)
         IN  IF RLt(left, right) THEN right ELSE left

\* Series.rolling(window).mean(): NaN until the window is full of values
RollingMean(x, window) ==
    [t \in 1..Len(x) |->
        IF t < window \/ \E k \in (t - window + 1)..t : IsNull(x[k]) THEN Null
        ELSE RDiv(SumOf(x, t - window + 1, t), <<window, 1>>)]

\* Series.rolling(window).max()
RollingMax(x, window) ==
    [t \in 1..Len(x) |->
        IF t < window \/ \E k \in (t - window + 1)..t : IsNull(x[k]) THEN Null
        ELSE RMaxOf(x, t - window + 1, t)]

\* close.max() in place of close.cummax(): the peak of the whole series
CumMaxWholeSeries(x) == [t \in 1..Len(x) |-> RMaxOf(x, 1, Len(x))]

\* Series.cummax()
RECURSIVE CumMaxFrom(_, _, _, _)
CumMaxFrom(prev, x, from, to) ==
    IF from > to THEN <<>>
    ELSE IF from = to
         THEN <<(IF IsNull(prev) \/ RLt(prev, x[from]) THEN x[from] ELSE prev)>>
    ELSE LET mid == (from + to) \div 2
             left == CumMaxFrom(prev, x, from, mid)
         IN  left \o CumMaxFrom(left[Len(left)], x, mid + 1, to)

CumMax(x) == CumMaxFrom(Null, x, 1, Len(x))

\* close / other - 1
RatioMinus1(x, y) ==
    [t \in 1..Len(x) |->
        IF IsNull(x[t]) \/ IsNull(y[t]) THEN Null
        ELSE RSub(RDiv(x[t], y[t]), <<1, 1>>)]

\* g.sort_values("date")
SortedByDate(g) ==
    SortValues(g, [i, j \in 1..Len(g) |-> g[i].date < g[j].date])

\* per_symbol(symbol, g): g holds the rows of one symbol with a close.
PerSymbol(symbol, group) ==
    LET g == SortedByDate(group)
        close == [t \in 1..Len(g) |-> g[t].close]
        ret_1d == PctChange(close)
        sma_50 == RollingMean(close, Sma50Window)
        sma_200 == RollingMean(close, Sma200Window)
        rsi_14 == Rsi(close, RsiPeriod)
        high_252 == RollingMax(close, High252Window)
        peak_close == CumMax(close)
        volume == [t \in 1..Len(g) |-> g[t].volume]
        vol_sma_20 == RollingMean(volume, VolSmaWindow)
        dist_to_52w_high == RatioMinus1(close, high_252)
        drawdown == RatioMinus1(close, peak_close)
    IN  [t \in 1..Len(g) |->
            [symbol |-> symbol, date |-> g[t].date, close |-> close[t],
             source |-> g[t].source, yahoo_ticker |-> g[t].yahoo_ticker,
             ret_1d |-> ret_1d[t], sma_50 |-> sma_50[t], sma_200 |-> sma_200[t],
             rsi_14 |-> rsi_14[t], atr_14 |-> Null,
             high_252 |-> high_252[t],
             dist_to_52w_high |-> dist_to_52w_high[t],
             peak_close |-> peak_close[t],
             drawdown |-> drawdown[t],
             volume |-> volume[t], vol_sma_20 |-> vol_sma_20[t],
             vol_spike |-> FloatDiv(volume[t], vol_sma_20[t]),
             trend_long |-> TrendLong(sma_50[t], sma_200[t]),
             rsi_state |-> RsiState(rsi_14[t])]]

\* Day numbers: day 0 is a Monday, so a Friday is a day d with d % 7 = 4.
\* The W-FRI bin of a day is the first Friday on or after it.
WeekEnd(d) == d + ((4 - d) % 7)

\* .nth(-1) in place of .last(): the value of the bin's last row, NaN or not
LastValue(g, column, from, to) == g[to][column]

\* The last non-null value of a column among the rows from..to of g, NaN
\* when there is none: what GroupBy.last() yields for one bin.
LastValid(g, column, from, to) ==
    LET valid == {k \in from..to : ~IsNull(g[k][column])}
    IN  IF valid = {} THEN Null
        ELSE g[CHOOSE k \in valid : \A j \in valid : j <= k][column]

\* The first and last row of sorted g that fall in the week of row k.
WeekFirst(g, k) ==
    CHOOSE i \in 1..k :
        /\ WeekEnd(g[i].date) = WeekEnd(g[k].date)
        /\ \A j \in 1..(i - 1) : WeekEnd(g[j].date) # WeekEnd(g[k].date)

IsWeekLast(g, k) ==
    \A j \in (k + 1)..Len(g) : WeekEnd(g[j].date) # WeekEnd(g[k].date)

\* to_weekly_from_daily(symbol, g): resample("W-FRI").last() takes, in each
\* week, the last non-null value of every column; the weeks left without a
\* close (those without rows among them) are dropped.  yahoo_ticker is
\* then overwritten with the last non-null ticker of the whole group ("",
\* an empty cell, when there is none) and source with "weekly".
ToWeeklyFromDaily(symbol, group) ==
    LET g == SortedByDate(group)
        n == Len(g)
        lasts == SelectSeq([k \in 1..n |-> k], LAMBDA k : IsWeekLast(g, k))
        w == [t \in 1..Len(lasts) |->
                 [symbol |-> symbol, date |-> WeekEnd(g[lasts[t]].date),
                  close |-> LastValid(g, "close", WeekFirst(g, lasts[t]), lasts[t]),
                  volume |-> LastValid(g, "volume", WeekFirst(g, lasts[t]), lasts[t]),
                  yahoo_ticker |-> LastValid(g, "yahoo_ticker", 1, n),
                  source |-> "weekly"]]
    IN  SelectSeq(w, LAMBDA r : ~IsNull(r.close))

\* df.sort_values(["symbol", "date"]).reset_index(drop=True), after the
\* close_price fallback of lines 124-128.
RawBefore(a, b) ==
    SymbolLess(a.symbol, b.symbol) \/ (a.symbol = b.symbol /\ a.date < b.date)

\* A cell of a row, NaN when the file has no such column.
Cell(row, column) == IF column \in DOMAIN row THEN row[column] ELSE Null

StandardFrame(raw) ==
    LET df == [k \in 1..Len(raw) |->
                  [symbol |-> raw[k].symbol, date |-> raw[k].date,
                   close |-> IF "close" \in DOMAIN raw[k]
                             THEN <<raw[k].close, 1>>
                             ELSE <<raw[k].close_price, 1>>,
                   source |-> Cell(raw[k], "source"),
                   yahoo_ticker |-> Cell(raw[k], "yahoo_ticker"),
                   volume |-> IF "volume" \in DOMAIN raw[k]
                              THEN <<raw[k].volume, 1>> ELSE Null]]
    IN  SortValues(df, [i, j \in 1..Len(df) |-> RawBefore(df[i], df[j])])

\* for symbol, g in df.groupby("symbol", sort=False): groups in order of
\* first appearance, each fed to f, the parts concatenated.
GroupSymbols(df) ==
    LET firsts == SelectSeq([k \in 1..Len(df) |-> [symbol |-> df[k].symbol, k |-> k]],
                     LAMBDA r : \A j \in 1..(r.k - 1) : df[j].symbol # r.symbol)
    IN  [g \in 1..Len(firsts) |-> firsts[g].symbol]

\* The rows of the symbol together with the rows sorted before them: the
\* columns computed down the whole frame, without groupby.
GroupWithPreceding(df, symbol) ==
    SelectSeq(df, LAMBDA r : r.symbol = symbol \/ SymbolLess(r.symbol, symbol))

GroupOf(df, symbol) == SelectSeq(df, LAMBDA r : r.symbol = symbol)

DailyIndicators(df) ==
    LET syms == GroupSymbols(df)
    IN  Flatten([g \in 1..Len(syms) |-> PerSymbol(syms[g], GroupOf(df, syms[g]))],
                Len(syms))

\* out.sort_values(["symbol", "date"]).groupby("symbol").tail(1), by symbol
LatestOf(out) ==
    LET sorted == SortValues(out,
                      [i, j \in 1..Len(out) |-> RawBefore(out[i], out[j])])
        tails == SelectSeq([k \in 1..Len(sorted) |-> [row |-> sorted[k], k |-> k]],
                     LAMBDA r : \A j \in (r.k + 1)..Len(sorted) :
                         sorted[j].symbol # r.row.symbol)
    IN  SortedBySymbol([k \in 1..Len(tails) |-> tails[k].row])

WeeklyIndicators(df) ==
    LET syms == GroupSymbols(df)
        weekly_base ==
            Flatten([g \in 1..Len(syms) |->
                        ToWeeklyFromDaily(syms[g], GroupOf(df, syms[g]))], Len(syms))
        wsyms == GroupSymbols(weekly_base)
    IN  Flatten([g \in 1..Len(wsyms) |->
                    PerSymbol(wsyms[g], GroupOf(weekly_base, wsyms[g]))], Len(wsyms))

\* The columns of a file: those of its rows.
Columns(raw) == DOMAIN raw[1]

Required == {"date", "symbol", "close"}

\* The exception main() raises on a raw file without its columns, as
\* <<type, columns the message names>>, NaN when there is none: the lookups
\* of lines 122 and 131 come before the check of lines 134-137.
SchemaError(raw) ==
    LET columns == Columns(raw)
        missing == Required \ (columns \cup (IF "close_price" \in columns
                                             THEN {"close"} ELSE {}))
    IN  IF "date" \notin columns THEN <<"KeyError", {"date"}>>
        ELSE IF "close" \notin columns /\ "close_price" \notin columns
             THEN <<"ValueError", {"close", "close_price"}>>
        ELSE IF "symbol" \notin columns THEN <<"KeyError", {"symbol"}>>
        ELSE IF missing # {} THEN <<"ValueError", missing>>
        ELSE Null

\* The first group, in loop order, whose computation raises at a stage.
Raising(stage, syms) ==
    LET hits == SelectSeq(syms, LAMBDA sym : <<stage, sym>> \in faulty)
    IN  IF hits = <<>> THEN Null ELSE <<"Exception", {hits[1]}>>

\* main(): pd.concat of an empty list raises, so an empty raw file writes
\* nothing.  No loop catches an exception: the first one ends the run, with
\* the files already written left as they are.
BuildIndicators ==
    /\ daily_prices # <<>>
    /\ IF ~IsNull(SchemaError(daily_prices))
       THEN /\ raised' = SchemaError(daily_prices)
            /\ UNCHANGED <<indicators, latest_signals, indicators_weekly, ran>>
       ELSE LET df == StandardFrame(daily_prices)
                syms == GroupSymbols(df)
            IN  IF ~IsNull(Raising("daily", syms))
                THEN /\ raised' = Raising("daily", syms)
                     /\ UNCHANGED <<indicators, latest_signals,
                                    indicators_weekly, ran>>
                ELSE /\ indicators' = DailyIndicators(df)
                     /\ latest_signals' = LatestOf(DailyIndicators(df))
                     /\ IF ~IsNull(Raising("weekly", syms))
                        THEN /\ raised' = Raising("weekly", syms)
                             /\ UNCHANGED <<indicators_weekly, ran>>
                        ELSE /\ indicators_weekly' = WeeklyIndicators(df)
                             /\ raised' = Null
                             /\ ran' = ran \cup {"build_indicators"}
    /\ UNCHANGED <<company_master, watchlist, daily_prices, coverage_report,
                   collect_files, faulty>>


(***************************************************************************)
(* build_watchlist.py                                                      *)
(***************************************************************************)
TopN == 20

RsiHealthyLow == 40

RsiHealthyHigh == 65

DistFloor == Rat(-25, 100)

DrawdownFloor == Rat(-35, 100)

\* weekly.sort_values(["symbol", "date"]).groupby("symbol").tail(1)
WeeklyBefore(a, b) ==
    SymbolLess(a.symbol, b.symbol) \/ (a.symbol = b.symbol /\ a.date < b.date)

WeeklyLatest(weekly) ==
    LET sorted == SortValues(weekly,
                      [i, j \in 1..Len(weekly) |-> WeeklyBefore(weekly[i], weekly[j])])
    IN  SelectSeq(sorted,
            LAMBDA r : \A j \in 1..Len(sorted) :
                sorted[j].symbol = r.symbol => ~WeeklyBefore(r, sorted[j]))

\* daily_latest.merge(weekly_latest[[...]], on="symbol", how="left",
\*                    suffixes=("", "_weekly")): every column of the right
\* table but the key is also a column of the left one, so the left columns
\* keep their names and the right ones get the suffix.
WeeklyColumns(weekly_latest, symbol) ==
    LET hits == SelectSeq(weekly_latest, LAMBDA r : r.symbol = symbol)
    IN  IF hits = <<>>
        THEN [sma_50_weekly |-> Null, sma_200_weekly |-> Null,
              drawdown_weekly |-> Null, dist_to_52w_high_weekly |-> Null,
              vol_20_weekly |-> Null]
        ELSE [sma_50_weekly |-> hits[1].sma_50,
              sma_200_weekly |-> hits[1].sma_200,
              drawdown_weekly |-> hits[1].drawdown,
              dist_to_52w_high_weekly |-> hits[1].dist_to_52w_high,
              vol_20_weekly |-> hits[1].vol_20]

MergeWeekly(daily_latest, weekly_latest) ==
    [i \in 1..Len(daily_latest) |->
        LET d == daily_latest[i]
            w == WeeklyColumns(weekly_latest, d.symbol)
        IN  [symbol |-> d.symbol, date |-> d.date, close |-> d.close,
             sma_50 |-> d.sma_50, sma_200 |-> d.sma_200,
             rsi_14 |-> d.rsi_14, macd_hist |-> d.macd_hist,
             dist_to_52w_high |-> d.dist_to_52w_high,
             drawdown |-> d.drawdown, vol_20 |-> d.vol_20,
             trend_long |-> d.trend_long, rsi_state |-> d.rsi_state,
             sma_50_weekly |-> w.sma_50_weekly,
             sma_200_weekly |-> w.sma_200_weekly,
             drawdown_weekly |-> w.drawdown_weekly,
             dist_to_52w_high_weekly |-> w.dist_to_52w_high_weekly,
             vol_20_weekly |-> w.vol_20_weekly]]

\* add_company_names: master.drop_duplicates("symbol_key") keeps the first
\* row of each key; the left merge leaves company_name NaN without a match.
CompanyNameOf(master, symbol) ==
    LET hits == SelectSeq(master,
                    LAMBDA r : SymbolKey(r.symbol) = SymbolKey(symbol))
    IN  IF hits = <<>> THEN Null ELSE hits[1].company_name

\* The six score terms, each on the columns of `merged` the code names.
TrendTerm(m) == AsInt(Gt(m.sma_50, m.sma_200)) * 3

CloseTerm(m) == AsInt(Gt(m.close, m.sma_50)) * 1

RsiTermExclusive(m) ==
    AsInt(Gt(m.rsi_14, Rat(RsiHealthyLow, 1)) /\ Lt(m.rsi_14, Rat(RsiHealthyHigh, 1))) * 1

RsiTerm(m) ==
    AsInt(Ge(m.rsi_14, Rat(RsiHealthyLow, 1)) /\ Le(m.rsi_14, Rat(RsiHealthyHigh, 1))) * 1

DistTerm(m) == AsInt(Gt(m.dist_to_52w_high, DistFloor)) * 1

DrawdownTerm(m) == AsInt(Lt(m.drawdown, DrawdownFloor)) * 1

MacdTerm(m) == AsInt(Gt(m.macd_hist, Rat(0, 1))) * 1

Score(m) ==
    0 + TrendTerm(m) + CloseTerm(m) + RsiTerm(m) + DistTerm(m)
      - DrawdownTerm(m) + MacdTerm(m)

\* Series.round: n/d to the nearest integer, ties to even.
RoundHalfEven(n, d) ==
    LET q == n \div d
        r == n % d
    IN  IF 2 * r < d THEN q
        ELSE IF 2 * r > d THEN q + 1
        ELSE IF q % 2 = 0 THEN q ELSE q + 1

\* pd.to_numeric(out[c]).round(2)
Round2(x) == IF IsNull(x) THEN Null ELSE Rat(RoundHalfEven(x[1] * 100, x[2]), 100)

\* (out[c] * 100).round(2)
Percent2(x) ==
    IF IsNull(x) THEN Null ELSE Rat(RoundHalfEven(x[1] * 100 * 100, x[2]), 100)

\* The presentation formats of lines 113-119, on a row of merged or of out.
Formatted(r) ==
    [r EXCEPT !.dist_to_52w_high = Percent2(@), !.drawdown = Percent2(@),
              !.vol_20 = Percent2(@), !.rsi_14 = Round2(@),
              !.macd_hist = Round2(@), !.close = Round2(@)]

\* The score taken from the formatted columns in place of the raw ones.
OutRowScoreOfFormatted(m, master) ==
    LET f == Formatted(m)
    IN  [company_name |-> CompanyNameOf(master, m.symbol),
         symbol |-> m.symbol, date |-> m.date,
         close |-> f.close, score |-> Score(f),
         trend_long |-> m.trend_long, rsi_14 |-> f.rsi_14,
         rsi_state |-> m.rsi_state, macd_hist |-> f.macd_hist,
         dist_to_52w_high |-> f.dist_to_52w_high,
         drawdown |-> f.drawdown, vol_20 |-> f.vol_20]

\* merged[cols] with the score of line 93, before any formatting.
ScoredRow(m, master) ==
    [company_name |-> CompanyNameOf(master, m.symbol),
     symbol |-> m.symbol, date |-> m.date,
     close |-> m.close, score |-> Score(m),
     trend_long |-> m.trend_long, rsi_14 |-> m.rsi_14,
     rsi_state |-> m.rsi_state, macd_hist |-> m.macd_hist,
     dist_to_52w_high |-> m.dist_to_52w_high,
     drawdown |-> m.drawdown, vol_20 |-> m.vol_20]

OutRow(m, master) ==
    [company_name |-> CompanyNameOf(master, m.symbol),
     symbol |-> m.symbol, date |-> m.date,
     close |-> Round2(m.close), score |-> Score(m),
     trend_long |-> m.trend_long, rsi_14 |-> Round2(m.rsi_14),
     rsi_state |-> m.rsi_state, macd_hist |-> Round2(m.macd_hist),
     dist_to_52w_high |-> Percent2(m.dist_to_52w_high),
     drawdown |-> Percent2(m.drawdown), vol_20 |-> Percent2(m.vol_20)]

\* The dashboard's order (app.py signals_table): trend_long as a second key.
WatchlistBeforeTrend(a, b) ==
    \/ a.score > b.score
    \/ (a.score = b.score /\ a.trend_long = "UP" /\ b.trend_long = "DOWN")
    \/ (a.score = b.score /\ a.trend_long = b.trend_long
        /\ NameBefore(a.company_name, b.company_name))

\* out.sort_values(["score", "company_name"], ascending=[False, True])
WatchlistBefore(a, b) ==
    \/ a.score > b.score
    \/ (a.score = b.score /\ NameBefore(a.company_name, b.company_name))

WatchlistOf(daily_latest, weekly, master) ==
    LET merged == MergeWeekly(daily_latest, WeeklyLatest(weekly))
        out == [i \in 1..Len(merged) |-> OutRow(merged[i], master)]
    IN  Head_n(SortValues(out,
                   [i, j \in 1..Len(out) |-> WatchlistBefore(out[i], out[j])]), TopN)

\* The same table with the formatting moved after sort_values and head.
RankThenFormat(daily_latest, weekly, master) ==
    LET merged == MergeWeekly(daily_latest, WeeklyLatest(weekly))
        scored == [i \in 1..Len(merged) |-> ScoredRow(merged[i], master)]
        top == Head_n(SortValues(scored,
                   [i, j \in 1..Len(scored) |->
                       WatchlistBefore(scored[i], scored[j])]), TopN)
    IN  [i \in 1..Len(top) |-> Formatted(top[i])]

BuildWatchlist ==
    /\ watchlist' = WatchlistOf(latest_signals, indicators_weekly, company_master)
    /\ ran' = ran \cup {"build_watchlist"}
    /\ UNCHANGED <<latest_signals, indicators_weekly, company_master,
                   daily_prices, indicators, coverage_report, collect_files,
                   faulty, raised>>

(***************************************************************************)
(* Inputs of build_watchlist: the files build_indicators and               *)
(* update_company_master leave behind.  A row's columns are consistent     *)
(* with the number of rows of history behind it, as per_symbol computes    *)
(* them: sma_50 needs 50 rows, sma_200 needs 200, dist_to_52w_high needs   *)
(* 252; drawdown is defined with the first close and                       *)
(* dist_to_52w_high >= drawdown; trend_long and rsi_state are the labels   *)
(* of the row's own sma_50, sma_200 and rsi_14.                            *)
(***************************************************************************)
Extra == 1

MinFill == 2

\* Input values: thousandths for prices and indicators, 1/100000 for the
\* fraction columns.
Milli(x) == Rat(x, 1000)

Frac(x) == Rat(x, 100000)

HistoryLevels == {"none", "lt50", "lt200", "lt252", "full"}

ClosesOf(lvl) ==
    IF lvl = "none" THEN {Null}
    ELSE IF lvl = "lt50" THEN {Milli(20000)}
    ELSE {Milli(20000), Milli(20001)}

Sma50Of(lvl) == IF lvl \in {"none", "lt50"} THEN {Null} ELSE {Milli(20000)}

Sma200Of(lvl) ==
    IF lvl \in {"lt252", "full"} THEN {Milli(19999), Milli(20000)} ELSE {Null}

RsiOf(lvl) ==
    IF lvl = "none" THEN {Null}
    ELSE {Null, Milli(39999), Milli(40000), Milli(65000), Milli(65001)}

MacdOf(lvl) == IF lvl = "none" THEN {Null} ELSE {Milli(0), Milli(1)}

DistOf(lvl) == IF lvl = "full" THEN {Frac(-25000), Frac(-24999)} ELSE {Null}

DrawdownOf(lvl) == IF lvl = "none" THEN {Null} ELSE {Frac(-35001), Frac(-35000)}

Vol20Of(lvl) == IF lvl \in {"none", "lt50"} THEN Null ELSE Frac(31415)

IndicatorColumns ==
    UNION {[close : ClosesOf(lvl), sma_50 : Sma50Of(lvl), sma_200 : Sma200Of(lvl),
            rsi_14 : RsiOf(lvl), macd_hist : MacdOf(lvl),
            dist_to_52w_high : DistOf(lvl), drawdown : DrawdownOf(lvl),
            vol_20 : {Vol20Of(lvl)}] : lvl \in HistoryLevels}

\* A row of latest_signals.csv: the columns with per_symbol's labels.
DailyRow(symbol, c) ==
    [symbol |-> symbol, date |-> 100, close |-> c.close, sma_50 |-> c.sma_50,
     sma_200 |-> c.sma_200, rsi_14 |-> c.rsi_14, macd_hist |-> c.macd_hist,
     dist_to_52w_high |-> c.dist_to_52w_high, drawdown |-> c.drawdown,
     vol_20 |-> c.vol_20, trend_long |-> TrendLong(c.sma_50, c.sma_200),
     rsi_state |-> RsiState(c.rsi_14)]

\* The columns of indicators_weekly.csv that build_watchlist reads.
WeeklyColumnSets ==
    UNION {[sma_50 : Sma50Of(lvl), sma_200 : Sma200Of(lvl),
            dist_to_52w_high : DistOf(lvl), drawdown : DrawdownOf(lvl),
            vol_20 : {Vol20Of(lvl)}] : lvl \in {"lt50", "full"}}

WeeklyRowOf(symbol, date, c) ==
    [symbol |-> symbol, date |-> date, sma_50 |-> c.sma_50,
     sma_200 |-> c.sma_200, dist_to_52w_high |-> c.dist_to_52w_high,
     drawdown |-> c.drawdown, vol_20 |-> c.vol_20]

\* The rest of the universe: instrument i of a fixed, varied list.
FillLevel(i) ==
    IF i % 6 = 5 THEN "lt50" ELSE IF i % 6 = 4 THEN "lt200" ELSE "full"

FillColumns(i, lvl) ==
    [close |-> IF lvl # "lt50" /\ i % 2 = 0 THEN Milli(20001) ELSE Milli(20000),
     sma_50 |-> IF lvl = "lt50" THEN Null ELSE Milli(20000),
     sma_200 |-> IF lvl # "full" THEN Null
                 ELSE IF i % 3 = 0 THEN Milli(19999) ELSE Milli(20000),
     rsi_14 |-> IF i % 4 = 0 THEN Milli(40000)
                ELSE IF i % 4 = 1 THEN Milli(65001)
                ELSE IF i % 4 = 2 THEN Null ELSE Milli(65000),
     macd_hist |-> IF (i \div 2) % 2 = 0 THEN Milli(1) ELSE Milli(0),
     dist_to_52w_high |-> IF lvl # "full" THEN Null
                          ELSE IF i % 5 = 1 THEN Frac(-25000) ELSE Frac(-24999),
     drawdown |-> IF i % 7 = 0 THEN Frac(-35001) ELSE Frac(-35000),
     vol_20 |-> Vol20Of(lvl)]

FillSymbol(i) == <<2 * i, i % 3>>

FillDaily(i) == DailyRow(FillSymbol(i), FillColumns(i, FillLevel(i)))

FillWeekly(i) ==
    IF i % 4 = 0 THEN <<>>
    ELSE IF i % 4 = 1
    THEN <<WeeklyRowOf(FillSymbol(i), 96, FillColumns(i + 1, FillLevel(i)))>>
    ELSE <<WeeklyRowOf(FillSymbol(i), 96, FillColumns(i + 1, FillLevel(i))),
           WeeklyRowOf(FillSymbol(i), 89, FillColumns(i + 2, "lt50"))>>

FillMaster(i) ==
    IF i % 5 = 3 THEN <<>>
    ELSE IF i % 5 = 1
    THEN <<[symbol |-> <<2 * i, 1>>,
            company_name |-> <<CompanyNames[((3 * i) % 5) + 1]>>],
           [symbol |-> <<2 * i, 2>>,
            company_name |-> <<CompanyNames[((3 * i + 1) % 5) + 1]>>]>>
    ELSE <<[symbol |-> <<2 * i, 0>>,
            company_name |-> <<CompanyNames[((3 * i) % 5) + 1]>>]>>

ProbeSymbol == <<11, 1>>

FillCounts == {MinFill} \cup ((TopN - 1)..(TopN - 1 + Extra))

\* With a long table the probe instrument takes the columns that decide its
\* score, its label and its place; with a short one, every combination.
ProbeInputs(n) ==
    LET weeklies == {<<>>} \cup {<<x>> : x \in WeeklyColumnSets}
    IN  IF n = MinFill THEN IndicatorColumns \X weeklies
        ELSE {c \in IndicatorColumns :
                  c.rsi_14 \in {Null, Milli(40000)} /\ ~IsNull(c.dist_to_52w_high)}
                 \X {<<>>}

InitWatchlist ==
    \E n \in FillCounts,
       name \in {Null, <<"Alpha">>, <<"Delta">>, <<"Omega">>} :
      \E in \in ProbeInputs(n) :
       LET c == in[1]
           w == in[2]
       IN
        /\ latest_signals =
               SortedBySymbol([i \in 1..n |-> FillDaily(i)]
                                  \o <<DailyRow(ProbeSymbol, c)>>)
        /\ indicators_weekly =
               Flatten([i \in 1..n |-> FillWeekly(i)], n)
                   \o (IF w = <<>> THEN <<>>
                       ELSE <<WeeklyRowOf(ProbeSymbol, 96, w[1])>>)
        /\ company_master =
               Flatten([i \in 1..n |-> FillMaster(i)], n)
                   \o (IF IsNull(name) THEN <<>>
                       ELSE <<[symbol |-> <<11, 0>>, company_name |-> name]>>)
        /\ watchlist = <<>>
        /\ daily_prices = <<>>
        /\ indicators = <<>>
        /\ coverage_report = <<>>
        /\ NotCollected
        /\ NoFaults
        /\ ran = {}

SpecWatchlist == InitWatchlist /\ [][BuildWatchlist]_vars

(***************************************************************************)
(* Claims about build_watchlist, checked under SpecWatchlist.              *)
(***************************************************************************)
WatchlistDone == "build_watchlist" \in ran

\* The joined frame the scores were computed from, and a symbol's row of it.
Merged == MergeWeekly(latest_signals, WeeklyLatest(indicators_weekly))

RowOf(M, symbol) == M[CHOOSE k \in 1..Len(M) : M[k].symbol = symbol]

HasWeeklyRow(symbol) ==
    \E k \in 1..Len(indicators_weekly) : indicators_weekly[k].symbol = symbol

\* The three daily terms as the specification words them.
DailyPart(m) ==
    (IF ~IsNull(m.close) /\ ~IsNull(m.sma_50) /\ RLt(m.sma_50, m.close)
     THEN 1 ELSE 0)
    + (IF ~IsNull(m.rsi_14) /\ RLe(<<40, 1>>, m.rsi_14) /\ RLe(m.rsi_14, <<65, 1>>)
       THEN 1 ELSE 0)
    + (IF ~IsNull(m.macd_hist) /\ RLt(<<0, 1>>, m.macd_hist) THEN 1 ELSE 0)

\* The three weekly-dependent terms as the specification words them.
WeeklyPart(m) ==
    (IF ~IsNull(m.sma_50_weekly) /\ ~IsNull(m.sma_200_weekly)
        /\ RLt(m.sma_200_weekly, m.sma_50_weekly) THEN 3 ELSE 0)
    + (IF ~IsNull(m.dist_to_52w_high_weekly)
          /\ RLt(<<-1, 4>>, m.dist_to_52w_high_weekly) THEN 1 ELSE 0)
    - (IF ~IsNull(m.drawdown_weekly) /\ RLt(m.drawdown_weekly, <<-7, 20>>)
       THEN 1 ELSE 0)

\* C1: every score is the three daily terms plus the three weekly-dependent
\* terms taken from the instrument's latest WEEKLY row (+3 iff weekly
\* sma_50 > sma_200, +1 iff weekly dist_to_52w_high > -0.25, -1 iff weekly
\* drawdown < -0.35), so that where daily and weekly disagree the score
\* follows the weekly value.
C1_ScoreFollowsWeekly ==
    WatchlistDone =>
        LET M == Merged
        IN  \A i \in 1..Len(watchlist) :
                LET m == RowOf(M, watchlist[i].symbol)
                IN  watchlist[i].score = DailyPart(m) + WeeklyPart(m)

\* The columns the three other terms can read, daily or weekly.
SameOtherInputs(a, b) ==
    /\ a.sma_50 = b.sma_50 /\ a.sma_200 = b.sma_200
    /\ a.dist_to_52w_high = b.dist_to_52w_high /\ a.drawdown = b.drawdown
    /\ a.sma_50_weekly = b.sma_50_weekly /\ a.sma_200_weekly = b.sma_200_weekly
    /\ a.dist_to_52w_high_weekly = b.dist_to_52w_high_weekly
    /\ a.drawdown_weekly = b.drawdown_weekly

AllOtherInputsNull(a) ==
    /\ IsNull(a.sma_50) /\ IsNull(a.sma_200)
    /\ IsNull(a.dist_to_52w_high) /\ IsNull(a.drawdown)
    /\ IsNull(a.sma_50_weekly) /\ IsNull(a.sma_200_weekly)
    /\ IsNull(a.dist_to_52w_high_weekly) /\ IsNull(a.drawdown_weekly)

\* C2: every score is an integer, and the daily terms are +1 iff daily
\* close > daily sma_50, +1 iff 40 <= rsi_14 <= 65, +1 iff macd_hist > 0,
\* a null operand giving 0: two instruments that agree on every column the
\* other three terms read differ in score by exactly the difference of
\* their daily terms, and an instrument with all those columns null scores
\* exactly its daily terms.
C2_DailyTermsNullAsFalse ==
    WatchlistDone =>
        LET M == Merged
            row == [i \in 1..Len(watchlist) |-> RowOf(M, watchlist[i].symbol)]
        IN  /\ \A i \in 1..Len(watchlist) :
                  /\ watchlist[i].score \in Int
                  /\ AllOtherInputsNull(row[i]) =>
                        watchlist[i].score = DailyPart(row[i])
            /\ \A i, j \in 1..Len(watchlist) :
                  SameOtherInputs(row[i], row[j]) =>
                      watchlist[i].score - watchlist[j].score
                          = DailyPart(row[i]) - DailyPart(row[j])

\* C2 witness: two scored instruments agree on the other terms' columns, one
\* with a null rsi_14 and one with rsi_14 on the inclusive bound 65, and
\* their scores differ.
C2_Witness ==
    /\ WatchlistDone
    /\ \E i, j \in 1..Len(watchlist) :
          LET M == Merged
              a == RowOf(M, watchlist[i].symbol)
              b == RowOf(M, watchlist[j].symbol)
          IN  /\ SameOtherInputs(a, b)
              /\ IsNull(a.rsi_14) /\ b.rsi_14 = <<65, 1>>
              /\ a.close = b.close /\ a.macd_hist = b.macd_hist
              /\ watchlist[j].score = watchlist[i].score + 1

\* C3: an instrument of the daily snapshot with no row in the weekly table
\* scores exactly its three daily terms, so its score lies in 0..3.
C3_NoWeeklyRowScoresDailyOnly ==
    WatchlistDone =>
        \A i \in 1..Len(watchlist) :
            ~HasWeeklyRow(watchlist[i].symbol) =>
                /\ watchlist[i].score = DailyPart(RowOf(Merged, watchlist[i].symbol))
                /\ watchlist[i].score \in 0..3

\* C4 as stated: of two rows with equal score and different trend_long, the
\* "UP" row comes first, whatever the company names.
C4_TrendLongBreaksTies ==
    WatchlistDone =>
        \A i, j \in 1..Len(watchlist) :
            /\ watchlist[i].score = watchlist[j].score
            /\ watchlist[i].trend_long = "UP"
            /\ watchlist[j].trend_long = "DOWN"
            => i < j

\* C4 amended: the order is (score descending, company_name ascending, rows
\* without a company name last); trend_long is not a sort key, so of two
\* rows with equal score the one with the smaller company name comes first
\* whatever their trend_long.
C4_OrderedByScoreThenName ==
    WatchlistDone =>
        \A i, j \in 1..Len(watchlist) :
            \/ watchlist[i].score > watchlist[j].score
            \/ /\ watchlist[i].score = watchlist[j].score
               /\ NameBefore(watchlist[i].company_name, watchlist[j].company_name)
            => i < j

\* C4 witness: a "DOWN" row stands before an "UP" row of the same score
\* because its company name is the smaller one.
C4_Witness ==
    /\ WatchlistDone
    /\ \E i, j \in 1..Len(watchlist) :
          /\ i < j
          /\ watchlist[i].score = watchlist[j].score
          /\ watchlist[i].trend_long = "DOWN"
          /\ watchlist[j].trend_long = "UP"
          /\ NameBefore(watchlist[i].company_name, watchlist[j].company_name)

Min(a, b) == IF a < b THEN a ELSE b

\* C5: the watchlist has min(20, number of scored instruments) rows, one
\* per instrument; scores are non-increasing down the list; no instrument
\* left out scores strictly more than one that is in; and of two named rows
\* with equal score the alphabetically smaller company name comes first.
C5_TrueTop20 ==
    WatchlistDone =>
        /\ Len(watchlist) = Min(20, Len(latest_signals))
        /\ \A i, j \in 1..Len(watchlist) :
              /\ i < j => watchlist[i].score >= watchlist[j].score
              /\ i # j => watchlist[i].symbol # watchlist[j].symbol
              /\ /\ watchlist[i].score = watchlist[j].score
                 /\ ~IsNull(watchlist[i].company_name)
                 /\ ~IsNull(watchlist[j].company_name)
                 /\ NameRank(watchlist[i].company_name[1])
                        < NameRank(watchlist[j].company_name[1])
                 => i < j
        /\ LET M == Merged
           IN  \A k \in 1..Len(M) :
                  (\A i \in 1..Len(watchlist) : watchlist[i].symbol # M[k].symbol)
                  => \A i \in 1..Len(watchlist) :
                         Score(M[k]) <= watchlist[i].score

\* C5 witness: more than 20 instruments were scored, 20 were kept, the one
\* left out ties with the last one kept, and "Alpha" stands right before
\* "Beta" or a later name at the same score.
C5_Witness ==
    /\ WatchlistDone
    /\ Len(latest_signals) > 20
    /\ Len(watchlist) = 20
    /\ LET M == Merged
       IN  \E k \in 1..Len(M) :
              /\ \A i \in 1..Len(watchlist) : watchlist[i].symbol # M[k].symbol
              /\ Score(M[k]) = watchlist[20].score
    /\ \E i \in 1..19 :
          /\ watchlist[i].score = watchlist[i + 1].score
          /\ watchlist[i].company_name = <<"Alpha">>
          /\ watchlist[i + 1].company_name # <<"Alpha">>
          /\ ~IsNull(watchlist[i + 1].company_name)

(***************************************************************************)
(* build_coverage_report.py.  It reads the symbol, date and source columns *)
(* of indicators.csv; dates are day numbers.                               *)
(***************************************************************************)
StaleDays == 2

LowHistoryDays == 20

MaxOf(S) == CHOOSE x \in S : \A y \in S : y <= x

\* ind["date"].max()
Today(ind) == MaxOf({ind[k].date : k \in 1..Len(ind)})

\* ind.groupby("symbol").agg(last_update=max, days_of_data=count,
\* source=last).reset_index(): one row per symbol, in symbol order.
GroupKeys(ind) ==
    LET firsts == SelectSeq([k \in 1..Len(ind) |-> [symbol |-> ind[k].symbol, k |-> k]],
                     LAMBDA r : \A j \in 1..(r.k - 1) : ind[j].symbol # r.symbol)
    IN  SortValues(firsts,
            [i, j \in 1..Len(firsts) |-> SymbolLess(firsts[i].symbol, firsts[j].symbol)])

Summary(ind) ==
    LET keys == GroupKeys(ind)
    IN  [g \in 1..Len(keys) |->
            LET rows == SelectSeq(ind, LAMBDA r : r.symbol = keys[g].symbol)
            IN  [symbol |-> keys[g].symbol,
                 last_update |-> MaxOf({rows[k].date : k \in 1..Len(rows)}),
                 days_of_data |-> Len(rows),
                 source |-> rows[Len(rows)].source]]

\* The last two assignments swapped: staleness overriding short history.
StatusOfStaleLast(r, today) ==
    LET s0 == "OK"
        s1 == IF r.days_of_data < LowHistoryDays THEN "LOW_HISTORY" ELSE s0
        s2 == IF r.last_update < today - StaleDays THEN "STALE" ELSE s1
    IN  s2

\* The three assignments to summary["status"], in the code's order.
StatusOf(r, today) ==
    LET s0 == "OK"
        s1 == IF r.last_update < today - StaleDays THEN "STALE" ELSE s0
        s2 == IF r.days_of_data < LowHistoryDays THEN "LOW_HISTORY" ELSE s1
    IN  s2

\* The labels by severity: "STALE" before "LOW_HISTORY" before "OK".
StatusLessBySeverity(a, b) ==
    \/ (a = "STALE" /\ b \in {"LOW_HISTORY", "OK"})
    \/ (a = "LOW_HISTORY" /\ b = "OK")

\* Plain string order of the three labels.
StatusLess(a, b) ==
    \/ (a = "LOW_HISTORY" /\ b \in {"OK", "STALE"})
    \/ (a = "OK" /\ b = "STALE")

\* sort_values(["status", "company_name"])
CoverageBefore(a, b) ==
    \/ StatusLess(a.status, b.status)
    \/ (a.status = b.status /\ NameBefore(a.company_name, b.company_name))

CoverageOf(ind, master) ==
    LET today == Today(ind)
        summary == Summary(ind)
        out == [g \in 1..Len(summary) |->
                   [company_name |-> CompanyNameOf(master, summary[g].symbol),
                    symbol |-> summary[g].symbol,
                    last_update |-> summary[g].last_update,
                    days_of_data |-> summary[g].days_of_data,
                    source |-> summary[g].source,
                    status |-> StatusOf(summary[g], today)]]
    IN  SortValues(out,
            [i, j \in 1..Len(out) |-> CoverageBefore(out[i], out[j])])

BuildCoverageReport ==
    /\ indicators # <<>>
    /\ coverage_report' = CoverageOf(indicators, company_master)
    /\ ran' = ran \cup {"build_coverage_report"}
    /\ UNCHANGED <<latest_signals, indicators_weekly, company_master,
                   watchlist, daily_prices, indicators, collect_files,
                   faulty, raised>>

(***************************************************************************)
(* Inputs of build_coverage_report: for each instrument a run of           *)
(* consecutive trading days ending on its last update.                     *)
(***************************************************************************)
NumCovSymbols == 2

MaxLag == 3

Horizon == 40

CovSymbol(i) == <<i, 1>>

CovDays == {1} \cup ((LowHistoryDays - 1)..(LowHistoryDays + 1))

CovRows(i, n, last) ==
    [k \in 1..n |->
        [symbol |-> CovSymbol(i), date |-> last - n + k,
         source |-> IF k = n /\ n % 2 = 1 THEN "cse" ELSE "yahoo"]]

CovMasters ==
    {<<>>,
     <<[symbol |-> <<1, 0>>, company_name |-> <<"Beta">>],
       [symbol |-> <<2, 0>>, company_name |-> <<"Alpha">>],
       [symbol |-> <<3, 0>>, company_name |-> <<"Beta">>]>>}

InitCoverage ==
    \E n \in [1..NumCovSymbols -> CovDays],
       lag \in [1..NumCovSymbols -> 0..MaxLag],
       master \in CovMasters :
        /\ indicators =
               Flatten([i \in 1..NumCovSymbols |->
                           CovRows(i, n[i], Horizon - lag[i])], NumCovSymbols)
        /\ company_master = master
        /\ coverage_report = <<>>
        /\ latest_signals = <<>>
        /\ indicators_weekly = <<>>
        /\ watchlist = <<>>
        /\ daily_prices = <<>>
        /\ NotCollected
        /\ NoFaults
        /\ ran = {}

SpecCoverage == InitCoverage /\ [][BuildCoverageReport]_vars

CoverageDone == "build_coverage_report" \in ran

\* C6: with today the maximum date of the whole table, an instrument's
\* status is "LOW_HISTORY" iff it has fewer than 20 rows (stale or not, and
\* also when its last update is today); otherwise "STALE" iff its last
\* update is strictly earlier than today minus 2 days; otherwise "OK"; and
\* every instrument of the table has exactly one row, with one of the three.
C6_SequentialStatus ==
    CoverageDone =>
        LET today == MaxOf({indicators[k].date : k \in 1..Len(indicators)})
            symbols == {indicators[k].symbol : k \in 1..Len(indicators)}
            DatesOf(sym) == {k \in 1..Len(indicators) : indicators[k].symbol = sym}
            LastOf(sym) == MaxOf({indicators[k].date : k \in DatesOf(sym)})
        IN  /\ \A sym \in symbols :
                  Cardinality({g \in 1..Len(coverage_report) :
                                   coverage_report[g].symbol = sym}) = 1
            /\ \A g \in 1..Len(coverage_report) :
                  LET r == coverage_report[g]
                      days == Cardinality(DatesOf(r.symbol))
                      last == LastOf(r.symbol)
                  IN  /\ r.symbol \in symbols
                      /\ r.status \in {"OK", "STALE", "LOW_HISTORY"}
                      /\ r.status = "LOW_HISTORY" <=> days < 20
                      /\ r.status = "STALE" <=> (days >= 20 /\ last < today - 2)
                      /\ r.status = "OK" <=> (days >= 20 /\ last >= today - 2)

\* C6 witness: a report holds a 19-row instrument updated today
\* ("LOW_HISTORY") beside a 20-row instrument last updated exactly two days
\* before today ("OK").
C6_Witness ==
    /\ CoverageDone
    /\ \E g, h \in 1..Len(coverage_report) :
          /\ coverage_report[g].days_of_data = 19
          /\ coverage_report[g].last_update = Today(indicators)
          /\ coverage_report[g].status = "LOW_HISTORY"
          /\ coverage_report[h].days_of_data = 20
          /\ coverage_report[h].last_update = Today(indicators) - 2
          /\ coverage_report[h].status = "OK"

(***************************************************************************)
(* Inputs of build_indicators for the claims about one series: a raw file  *)
(* holding one instrument's closes on consecutive days, the rows in file   *)
(* order or reversed, and possibly a second instrument.                    *)
(***************************************************************************)
MaxLen == 4

FirstDay == 9

Closes == {90, 95, 100, 110}

SeriesSymbol == <<1, 1>>

OtherSymbol == <<2, 1>>

RawSeries(symbol, closes) ==
    [k \in 1..Len(closes) |->
        [date |-> FirstDay + k - 1, symbol |-> symbol,
         close_price |-> closes[k], source |-> "yahoo"]]

Reverse(s) == [k \in 1..Len(s) |-> s[Len(s) + 1 - k]]

InitIndicators ==
    \E n \in 1..MaxLen :
      \E closes \in [1..n -> Closes], other \in {<<>>, <<110, 95>>},
         reversed \in BOOLEAN :
        /\ daily_prices =
               LET raw == RawSeries(OtherSymbol, other)
                              \o RawSeries(SeriesSymbol, closes)
               IN  IF reversed THEN Reverse(raw) ELSE raw
        /\ indicators = <<>>
        /\ latest_signals = <<>>
        /\ indicators_weekly = <<>>
        /\ company_master = <<>>
        /\ watchlist = <<>>
        /\ coverage_report = <<>>
        /\ NotCollected
        /\ NoFaults
        /\ ran = {}

SpecIndicators == InitIndicators /\ [][BuildIndicators]_vars

IndicatorsDone == "build_indicators" \in ran

\* Every symbol's rows of a table, in file order.
SymbolsOf(table) == {table[k].symbol : k \in 1..Len(table)}

RowsOf(table, symbol) == SelectSeq(table, LAMBDA r : r.symbol = symbol)

\* C8 for one series: peak_close is the largest close up to and including
\* the row, so it starts at the first close and never decreases; drawdown
\* is close/peak_close - 1, at most 0, and 0 exactly on the rows whose close
\* is at least every earlier close.
PeakAndDrawdown(rows) ==
    \A t \in 1..Len(rows) :
        /\ \A k \in 1..t : RLe(rows[k].close, rows[t].peak_close)
        /\ \E k \in 1..t : rows[k].close = rows[t].peak_close
        /\ t = 1 => rows[t].peak_close = rows[t].close
        /\ t > 1 => RLe(rows[t - 1].peak_close, rows[t].peak_close)
        /\ ~IsNull(rows[t].drawdown)
        /\ RMul(RAdd(rows[t].drawdown, <<1, 1>>), rows[t].peak_close) = rows[t].close
        /\ RLe(rows[t].drawdown, <<0, 1>>)
        /\ rows[t].drawdown = <<0, 1>>
              <=> \A k \in 1..t : RLe(rows[k].close, rows[t].close)

ClosesAre(rows, closes) ==
    /\ Len(rows) = Len(closes)
    /\ \A t \in 1..Len(rows) : rows[t].close = <<closes[t], 1>>

\* C8: in every row of every daily and weekly series, peak_close is the
\* running maximum of close and drawdown = close/peak_close - 1 <= 0, zero
\* exactly on the rows that set a new or equal peak; closes [100,110,90,95]
\* give drawdown 90/110 - 1 = -2/11 at index 2.
C8_PeakAndDrawdown ==
    IndicatorsDone =>
        /\ \A sym \in SymbolsOf(indicators) :
              LET rows == RowsOf(indicators, sym)
              IN  /\ PeakAndDrawdown(rows)
                  /\ ClosesAre(rows, <<100, 110, 90, 95>>) =>
                        rows[3].drawdown = <<-2, 11>>
        /\ \A sym \in SymbolsOf(indicators_weekly) :
              PeakAndDrawdown(RowsOf(indicators_weekly, sym))

\* C8 witness: the series [100, 110, 90, 95] has been computed, with peak
\* 110 and drawdown -2/11 on its third row.
C8_Witness ==
    /\ IndicatorsDone
    /\ LET rows == RowsOf(indicators, SeriesSymbol)
       IN  /\ ClosesAre(rows, <<100, 110, 90, 95>>)
           /\ rows[3].peak_close = <<110, 1>>
           /\ rows[3].drawdown = <<-2, 11>>

\* C9: every row of every daily and weekly series whose rsi_14 is defined
\* has 0 <= rsi_14 <= 100, all-gain and all-loss series included.
C9_RsiWithinBounds ==
    IndicatorsDone =>
        \A table \in {indicators, indicators_weekly} :
            \A k \in 1..Len(table) :
                ~IsNull(table[k].rsi_14) =>
                    /\ RLe(<<0, 1>>, table[k].rsi_14)
                    /\ RLe(table[k].rsi_14, <<100, 1>>)

\* C9 witness: a strictly decreasing series ends with rsi_14 = 0, a series
\* of the same run has a row with rsi_14 strictly between 0 and 100.
C9_Witness ==
    /\ IndicatorsDone
    /\ LET rows == RowsOf(indicators, SeriesSymbol)
           other == RowsOf(indicators, OtherSymbol)
       IN  /\ ClosesAre(rows, <<110, 100, 95, 90>>)
           /\ rows[4].rsi_14 = <<0, 1>>
           /\ Len(other) = 2

\* C10 as stated: rsi_14 is null on every row of a series of fewer than 14
\* rows, as for [100, 110, 90, 95].
C10_RsiNullBelow14Rows ==
    IndicatorsDone =>
        \A sym \in SymbolsOf(indicators) :
            LET rows == RowsOf(indicators, sym)
            IN  Len(rows) < 14 => \A t \in 1..Len(rows) : IsNull(rows[t].rsi_14)

\* C10 amended: rsi_14 has no warm-up window.  It is null on the first row
\* and on every row up to which no close has fallen (average loss 0), and
\* defined on every row from the first fall on, however short the series;
\* for [100, 110, 90, 95] it is null on rows 0 and 1 and 260/3 on row 2.
\* sma_50 and sma_200 are null on every row of a series of fewer than 50
\* and 200 rows.
C10_RsiNullUntilFirstLoss ==
    IndicatorsDone =>
        \A sym \in SymbolsOf(indicators) :
            LET rows == RowsOf(indicators, sym)
            IN  /\ \A t \in 1..Len(rows) :
                      /\ IsNull(rows[t].rsi_14)
                            <=> \A k \in 2..t : RLe(rows[k - 1].close, rows[k].close)
                      /\ Len(rows) < 50 => IsNull(rows[t].sma_50)
                      /\ Len(rows) < 200 => IsNull(rows[t].sma_200)
                /\ ClosesAre(rows, <<100, 110, 90, 95>>) =>
                      /\ IsNull(rows[1].rsi_14) /\ IsNull(rows[2].rsi_14)
                      /\ rows[3].rsi_14 = <<260, 3>>

\* C10 witness: the four-row series [100, 110, 90, 95] carries a defined
\* rsi_14 on its third row.
C10_Witness ==
    /\ IndicatorsDone
    /\ LET rows == RowsOf(indicators, SeriesSymbol)
       IN  /\ ClosesAre(rows, <<100, 110, 90, 95>>)
           /\ IsNull(rows[2].rsi_14)
           /\ rows[3].rsi_14 = <<260, 3>>
           /\ IsNull(rows[3].sma_50)

\* Bounds of the collect_prices inputs: runs, calendar days, quoted prices.
MaxRuns == 2

NumDays == 2

Days == FirstDay..(FirstDay + NumDays - 1)

Prices == {90, 100}

(***************************************************************************)
(* collect_prices.py                                                       *)
(*                                                                         *)
(* A cse_symbol "JKH.N0000" is <<base, "N0000">>, the symbol "JKH" of the  *)
(* symbol list is <<base, 0>>, and a Yahoo ticker is <<base, series,       *)
(* suffix>>: "JKH-N0000.CM" is <<base, "N0000", ".CM">>, "JKH.CM" is       *)
(* <<base, "", ".CM">> and "JKH" is <<base, "", "">>.                      *)
(***************************************************************************)

\* Remove duplicates while keeping order
Unique(cands) ==
    LET U[k \in 0..Len(cands)] ==
            IF k = 0 THEN <<>>
            ELSE IF \E j \in 1..(k - 1) : cands[j] = cands[k] THEN U[k - 1]
            ELSE Append(U[k - 1], cands[k])
    IN  U[Len(cands)]

\* ticker_candidates(row)
TickerCandidates(row) ==
    LET given == IF IsNull(Cell(row, "yahoo_ticker")) THEN <<>>
                 ELSE <<row.yahoo_ticker>>
        cse_symbol == Cell(row, "cse_symbol")
        from_cse ==
            IF IsNull(cse_symbol) THEN <<>>
            ELSE <<(<<cse_symbol[1], cse_symbol[2], ".CM">>)>>
                 \o (IF cse_symbol[2] = "P0000"
                     THEN <<(<<cse_symbol[1], "N0000", ".CM">>)>> ELSE <<>>)
        base_symbol == row.symbol[1]
        fallbacks == << <<base_symbol, "N0000", ".CM">>,
                        <<base_symbol, "", ".CM">>,
                        <<base_symbol, "", "">> >>
    IN  Unique(given \o from_cse \o fallbacks)

\* The text "nan", which has no series part, written as a cse_symbol.
NanText == <<0, "nan">>

\* cse_symbol = str(row.get("cse_symbol", "")).strip() of line 153: the
\* cell's text, "nan" for an empty cell (NaN), "" (here NaN) without the
\* column.
CseSymbolText(row) ==
    IF "cse_symbol" \notin DOMAIN row THEN Null
    ELSE IF IsNull(row.cse_symbol) THEN NanText
    ELSE row.cse_symbol

\* `if not success and cse_symbol:` once no Yahoo candidate has answered
CseAttempted(row) == ~IsNull(CseSymbolText(row))

\* What the two price services answer for one row of the symbol list, as
\* the loop body sees it: the i-th Yahoo candidate is the first to answer,
\* with a price; or no candidate answers and the CSE endpoint, if asked,
\* does; or nothing answers.
Outcomes(row, prices) ==
    {<<"yahoo", i, p>> : i \in 1..Len(TickerCandidates(row)), p \in prices}
        \cup (IF CseAttempted(row) THEN {<<"cse", 0, p>> : p \in prices}
              ELSE {})
        \cup {<<"failed", 0, 0>>}

\* The requests one iteration sends: fetch_price for the candidates in list
\* order up to the first that answers, then fetch_price_from_cse.
RequestsOf(row, outcome) ==
    LET cands == TickerCandidates(row)
        asked == IF outcome[1] = "yahoo" THEN outcome[2] ELSE Len(cands)
    IN  [i \in 1..asked |-> [service |-> "yahoo", argument |-> cands[i]]]
            \o (IF outcome[1] # "yahoo" /\ CseAttempted(row)
                THEN <<[service |-> "cse", argument |-> CseSymbolText(row)]>>
                ELSE <<>>)

\* The body of the loop over the symbol list: the dict appended to `rows`
PriceRow(today, row, outcome) ==
    [date |-> today, symbol |-> row.symbol,
     yahoo_ticker |-> IF outcome[1] = "yahoo"
                      THEN TickerCandidates(row)[outcome[2]] ELSE Null,
     close_price |-> outcome[3], source |-> outcome[1]]

\* and the dict appended to `failed`; last_error is the message of the
\* service asked last.
FailedRow(today, row) ==
    [date |-> today, symbol |-> row.symbol,
     yahoo_ticker |-> TickerCandidates(row)[1],
     error |-> IF CseAttempted(row) THEN "cse" ELSE "yahoo"]

\* One iteration of the loop over the symbol list (lines 151-201): the
\* requests it sends and what it appends to `rows` and to `failed`.
LoopBody(today, row, outcome) ==
    [requests |-> RequestsOf(row, outcome),
     rows |-> IF outcome[1] = "failed" THEN <<>>
              ELSE <<PriceRow(today, row, outcome)>>,
     failed |-> IF outcome[1] = "failed" THEN <<FailedRow(today, row)>>
                ELSE <<>>]

\* df.drop_duplicates(subset=..., keep="first"), `same` telling equal keys
DropDuplicatesKeepFirst(df, same) ==
    LET D[k \in 0..Len(df)] ==
            IF k = 0 THEN <<>>
            ELSE IF \E j \in 1..(k - 1) : same[j, k] THEN D[k - 1]
            ELSE Append(D[k - 1], df[k])
    IN  D[Len(df)]

\* df.drop_duplicates(subset=..., keep="last"), `same` telling equal keys
DropDuplicates(df, same) ==
    LET D[k \in 0..Len(df)] ==
            IF k = 0 THEN <<>>
            ELSE IF \E j \in (k + 1)..Len(df) : same[k, j] THEN D[k - 1]
            ELSE Append(D[k - 1], df[k])
    IN  D[Len(df)]

\* main()
CollectPrices ==
    /\ Len(ingested) < MaxRuns
    /\ \E today \in Days :
       \E outcome \in [1..Len(cse_symbols) -> UNION {Outcomes(cse_symbols[k], Prices) :
                                                        k \in 1..Len(cse_symbols)}] :
          /\ \A k \in 1..Len(cse_symbols) :
                outcome[k] \in Outcomes(cse_symbols[k], Prices)
          /\ LET n == Len(cse_symbols)
                 loop == [k \in 1..n |->
                             LoopBody(today, cse_symbols[k], outcome[k])]
                 rows == Flatten([k \in 1..n |-> loop[k].rows], n)
                 failed == Flatten([k \in 1..n |-> loop[k].failed], n)
                 df_all == IF daily_prices = <<>> THEN rows
                           ELSE daily_prices \o rows
                 df_hist_all == failed_history \o failed
             IN  /\ daily_prices' =
                        DropDuplicates(df_all,
                            [i, j \in 1..Len(df_all) |->
                                /\ df_all[i].date = df_all[j].date
                                /\ df_all[i].symbol = df_all[j].symbol])
                 /\ failed_prices' = failed
                 /\ failed_history' =
                        DropDuplicates(df_hist_all,
                            [i, j \in 1..Len(df_hist_all) |->
                                /\ df_hist_all[i].date = df_hist_all[j].date
                                /\ df_hist_all[i].symbol = df_hist_all[j].symbol
                                /\ df_hist_all[i].error = df_hist_all[j].error])
                 /\ ingested' = Append(ingested, rows)
                 /\ iterations' = loop
    /\ ran' = ran \cup {"collect_prices"}
    /\ UNCHANGED <<latest_signals, indicators_weekly, company_master,
                   watchlist, indicators, coverage_report, cse_symbols,
                   faulty, raised>>

\* A row of the symbol list as build_cse_list.py writes it.
SymbolRow(base, series) ==
    [symbol |-> <<base, 0>>, cse_symbol |-> <<base, series>>,
     yahoo_ticker |-> <<base, series, ".CM">>]

\* Symbol lists: two instruments, and one instrument listed with its
\* ordinary and its preference share, both under the same symbol.
SymbolLists ==
    {<<SymbolRow(1, "N0000"), SymbolRow(2, "N0000")>>,
     <<SymbolRow(1, "N0000"), SymbolRow(1, "P0000")>>}

InitPipeline ==
    /\ cse_symbols \in SymbolLists
    /\ daily_prices = <<>>
    /\ failed_prices = <<>>
    /\ failed_history = <<>>
    /\ ingested = <<>>
    /\ iterations = <<>>
    /\ indicators = <<>>
    /\ latest_signals = <<>>
    /\ indicators_weekly = <<>>
    /\ company_master = <<>>
    /\ watchlist = <<>>
    /\ coverage_report = <<>>
    /\ NoFaults
    /\ ran = {}

NextPipeline == CollectPrices \/ BuildIndicators

SpecPipeline == InitPipeline /\ [][NextPipeline]_vars

\* Every price row appended so far, in the order of ingestion.
Observations == Flatten(ingested, Len(ingested))

\* The last-ingested observation of a symbol on a date.
LastIngested(symbol, date) ==
    LET obs == Observations
        k == CHOOSE k \in 1..Len(obs) :
                 /\ obs[k].symbol = symbol /\ obs[k].date = date
                 /\ \A j \in (k + 1)..Len(obs) :
                       ~(obs[j].symbol = symbol /\ obs[j].date = date)
    IN  obs[k]

StrictlyIncreasingDates(rows) ==
    \A t \in 2..Len(rows) : rows[t - 1].date < rows[t].date

\* The indicator tables hold, per instrument, one row for each date
\* ingested, in strictly increasing date order, carrying the close that was
\* ingested last for that date.
SeriesAsIngested ==
    LET obs == Observations
    IN  /\ SymbolsOf(indicators) = SymbolsOf(obs)
        /\ \A sym \in SymbolsOf(indicators) :
              LET rows == RowsOf(indicators, sym)
              IN  /\ StrictlyIncreasingDates(rows)
                  /\ {rows[t].date : t \in 1..Len(rows)}
                        = {obs[k].date : k \in {k \in 1..Len(obs) : obs[k].symbol = sym}}
                  /\ \A t \in 1..Len(rows) :
                        LET last == LastIngested(sym, rows[t].date)
                        IN  /\ rows[t].close = <<last.close_price, 1>>
                            /\ rows[t].source = last.source
        /\ \A sym \in SymbolsOf(indicators_weekly) :
              StrictlyIncreasingDates(RowsOf(indicators_weekly, sym))

WeeklyDays ==
    {FirstDay, FirstDay + 1, FirstDay + 2, FirstDay + 3, FirstDay + 14}

Tickers == {<<1, "N0000", ".CM">>, <<1, "", ".CM">>}

\* The (close_price, yahoo_ticker) cells a collected row can hold.
Quoted == Prices \X (Tickers \cup {Null})

\* The rows of SeriesSymbol on the given days, in date order.
WeeklyRaw(days, quote) ==
    LET D[k \in 0..(FirstDay + 14)] ==
            IF k = 0 THEN <<>>
            ELSE IF k \in days
                 THEN Append(D[k - 1],
                         [date |-> k, symbol |-> SeriesSymbol,
                          close_price |-> quote[k][1],
                          yahoo_ticker |-> quote[k][2],
                          source |-> IF IsNull(quote[k][2]) THEN "cse" ELSE "yahoo"])
                 ELSE D[k - 1]
    IN  D[FirstDay + 14]

InitWeekly ==
    \E days \in SUBSET WeeklyDays :
      \E quote \in [days -> Quoted] :
        /\ days # {}
        /\ Cardinality(days) < MaxLen
        /\ daily_prices =
               RawSeries(OtherSymbol, <<110, 95>>) \o WeeklyRaw(days, quote)
        /\ indicators = <<>>
        /\ latest_signals = <<>>
        /\ indicators_weekly = <<>>
        /\ company_master = <<>>
        /\ watchlist = <<>>
        /\ coverage_report = <<>>
        /\ NotCollected
        /\ NoFaults
        /\ ran = {}

SpecWeekly == InitWeekly /\ [][BuildIndicators]_vars

\* The raw rows of a symbol, and those of one of its weeks.
RawOf(symbol) == RowsOf(daily_prices, symbol)

\* The raw row of a symbol with the latest date among those satisfying P.
LatestRaw(rows) == CHOOSE r \in rows : \A q \in rows : q.date <= r.date

RawOfWeek(symbol, friday) ==
    {r \in {RawOf(symbol)[k] : k \in 1..Len(RawOf(symbol))} :
        WeekEnd(r.date) = friday}

\* One weekly row per week that has daily rows, dated on that week's
\* Friday, and none for any other week.
OneRowPerWeek(symbol) ==
    LET weekly == RowsOf(indicators_weekly, symbol)
        raw == RawOf(symbol)
    IN  /\ StrictlyIncreasingDates(weekly)
        /\ \A t \in 1..Len(weekly) : weekly[t].date % 7 = 4
        /\ {weekly[t].date : t \in 1..Len(weekly)}
              = {WeekEnd(raw[k].date) : k \in 1..Len(raw)}

\* C11 as stated: one row per week that has daily rows, and in each weekly
\* row every column, close and a column that is null in that daily row
\* included, holds the value of the last daily row of the week.
C11_WeeklyIsLastDailyRow ==
    IndicatorsDone =>
        \A sym \in SymbolsOf(daily_prices) :
            /\ OneRowPerWeek(sym)
            /\ \A t \in 1..Len(RowsOf(indicators_weekly, sym)) :
                  LET w == RowsOf(indicators_weekly, sym)[t]
                      last == LatestRaw(RawOfWeek(sym, w.date))
                  IN  /\ w.close = <<last.close_price, 1>>
                      /\ w.yahoo_ticker = Cell(last, "yahoo_ticker")

\* C11 amended: for daily rows that all have a close, there is one weekly
\* row per week that has daily rows, dated on that week's Friday, and none
\* for a week without rows; its close is the close of the last daily row
\* of the week, its source is "weekly", and its yahoo_ticker is the ticker
\* of the latest daily row of the whole series that has one (empty when no
\* row has one), whichever week that row is in.
C11_WeeklyLastValid ==
    IndicatorsDone =>
        \A sym \in SymbolsOf(daily_prices) :
            /\ OneRowPerWeek(sym)
            /\ \A t \in 1..Len(RowsOf(indicators_weekly, sym)) :
                  LET w == RowsOf(indicators_weekly, sym)[t]
                      raw == RawOf(sym)
                      last == LatestRaw(RawOfWeek(sym, w.date))
                      ticketed == {r \in {raw[k] : k \in 1..Len(raw)} :
                                      ~IsNull(Cell(r, "yahoo_ticker"))}
                  IN  /\ w.close = <<last.close_price, 1>>
                      /\ w.source = "weekly"
                      /\ w.yahoo_ticker =
                            IF ticketed = {} THEN Null
                            ELSE LatestRaw(ticketed).yahoo_ticker

\* C11 witness: a series with rows in the first and the third week and
\* none in the second, whose last row of the first week is a CSE row
\* without ticker after a Yahoo row, has two weekly rows, the first one
\* carrying a ticker its week's last daily row does not have.
C11_Witness ==
    /\ IndicatorsDone
    /\ LET weekly == RowsOf(indicators_weekly, SeriesSymbol)
           raw == RawOf(SeriesSymbol)
       IN  /\ Len(weekly) = 2
           /\ weekly[2].date = weekly[1].date + 14
           /\ Len(raw) >= 3
           /\ WeekEnd(raw[1].date) = WeekEnd(raw[2].date)
           /\ ~IsNull(raw[1].yahoo_ticker)
           /\ IsNull(raw[2].yahoo_ticker)
           /\ WeekEnd(raw[3].date) = weekly[2].date
           /\ ~IsNull(weekly[1].yahoo_ticker)
           /\ raw[1].close_price # raw[2].close_price
           /\ weekly[1].close = <<raw[2].close_price, 1>>

(***************************************************************************)
(* Runs of build_indicators that end in an exception: raw files of two     *)
(* instruments with any of the columns date, symbol, close and close_price *)
(* left out, and at most one group whose computation raises.               *)
(***************************************************************************)
SchemaColumns == {"date", "symbol", "close", "close_price"}

\* A raw row cut down to the columns of the file (source is always there).
WithColumns(row, columns) ==
    [c \in columns \cup {"source"} |->
        IF c = "date" THEN row.date
        ELSE IF c = "symbol" THEN row.symbol
        ELSE IF c = "source" THEN row.source
        ELSE row.close_price]

Stages == {"daily", "weekly"}

InitAbort ==
    \E n \in 1..(MaxLen - 2) :
      \E closes \in [1..n -> Closes], columns \in SUBSET SchemaColumns,
         fault \in SUBSET (Stages \X {SeriesSymbol, OtherSymbol}) :
        /\ Cardinality(fault) <= 1
        /\ fault # {} => Required \subseteq columns
        /\ daily_prices =
               LET raw == RawSeries(OtherSymbol, <<110, 95>>)
                              \o RawSeries(SeriesSymbol, closes)
               IN  [k \in 1..Len(raw) |-> WithColumns(raw[k], columns)]
        /\ faulty = fault
        /\ raised = Null
        /\ indicators = <<>>
        /\ latest_signals = <<>>
        /\ indicators_weekly = <<>>
        /\ company_master = <<>>
        /\ watchlist = <<>>
        /\ coverage_report = <<>>
        /\ NotCollected
        /\ ran = {}

SpecAbort == InitAbort /\ [][BuildIndicators]_vars

\* The raw rows of every instrument but one.
Without(symbol) == SelectSeq(daily_prices, LAMBDA r : r.symbol # symbol)

\* C12 as stated: when the computation for one instrument raises, the run
\* goes on: that instrument is left out and the daily and weekly rows of
\* every other instrument are written as they would be without it.
C12_FailureIsolated ==
    (~IsNull(raised) /\ raised[1] = "Exception") =>
        \A sym \in raised[2] :
            /\ indicators = DailyIndicators(StandardFrame(Without(sym)))
            /\ indicators_weekly = WeeklyIndicators(StandardFrame(Without(sym)))

\* The required columns a raw file lacks, close_price standing in for close.
Missing(raw) ==
    {c \in Required :
        /\ c \notin Columns(raw)
        /\ ~(c = "close" /\ "close_price" \in Columns(raw))}

\* C13 as stated: a run over a raw file that lacks required columns ends
\* in an error that names exactly the set of missing columns, and writes
\* no output file; for each column alone and for every combination.
C13_SchemaErrorNamesMissing ==
    [][(BuildIndicators /\ Missing(daily_prices) # {}) =>
          /\ ~IsNull(raised')
          /\ raised'[2] \cap Required = Missing(daily_prices)
          /\ UNCHANGED <<indicators, latest_signals, indicators_weekly>>]_vars

(***************************************************************************)
(* Volume: series of about VolSmaWindow rows with a volume column, flat    *)
(* closes but for the last two rows.                                       *)
(***************************************************************************)
Volumes == {0, 5}

\* A series of n rows: closes 100, then the two given; volumes v[1] on the
\* first row, v[3] and v[4] on the last two, v[2] in between.
VolumeSeries(n, last, v) ==
    [k \in 1..n |->
        [date |-> FirstDay + k - 1, symbol |-> SeriesSymbol,
         close_price |-> IF k > n - 2 THEN last[k - (n - 2)] ELSE 100,
         volume |-> IF k = 1 THEN v[1] ELSE IF k = n THEN v[4]
                    ELSE IF k = n - 1 THEN v[3] ELSE v[2],
         source |-> "yahoo"]]

InitVolume ==
    \E n \in VolSmaWindow..(VolSmaWindow + 1) :
      \E last \in [1..2 -> Closes], v \in [1..4 -> Volumes] :
        /\ daily_prices = VolumeSeries(n, last, v)
        /\ indicators = <<>>
        /\ latest_signals = <<>>
        /\ indicators_weekly = <<>>
        /\ company_master = <<>>
        /\ watchlist = <<>>
        /\ coverage_report = <<>>
        /\ NotCollected
        /\ NoFaults
        /\ ran = {}

SpecVolume == InitVolume /\ [][BuildIndicators]_vars

\* The smoothed average loss of rsi(), recomputed from the closes written.
AvgLoss(rows) ==
    Ewm(ClipLower0(Neg(Diff([t \in 1..Len(rows) |-> rows[t].close]))), RsiPeriod)

\* C14: no zero denominator yields an infinite value: on every row whose
\* smoothed average loss is 0 rsi_14 is null (not 100, not infinite), on
\* every row whose vol_sma_20 is 0 vol_spike is null, and no rsi_14 or
\* vol_spike is infinite.
C14_ZeroDenominatorGivesNull ==
    IndicatorsDone =>
        \A table \in {indicators, indicators_weekly} :
            \A sym \in SymbolsOf(table) :
                LET rows == RowsOf(table, sym)
                    avg_loss == AvgLoss(rows)
                IN  \A t \in 1..Len(rows) :
                        /\ avg_loss[t] = <<0, 1>> => IsNull(rows[t].rsi_14)
                        /\ rows[t].vol_sma_20 = <<0, 1>> => IsNull(rows[t].vol_spike)
                        /\ ~IsInf(rows[t].rsi_14)
                        /\ ~IsInf(rows[t].vol_spike)

\* C14 witness: a series whose last window of volumes is all 0 after a
\* traded first day and whose closes only rise: the last row has
\* vol_sma_20 = 0 and average loss 0, and neither vol_spike nor rsi_14.
C14_Witness ==
    /\ IndicatorsDone
    /\ LET rows == RowsOf(indicators, SeriesSymbol)
           n == Len(rows)
       IN  /\ n = VolSmaWindow + 1
           /\ rows[1].volume = <<5, 1>>
           /\ rows[n - 1].vol_sma_20 # <<0, 1>>
           /\ rows[n].vol_sma_20 = <<0, 1>>
           /\ IsNull(rows[n].vol_spike)
           /\ RLt(rows[n - 1].close, rows[n].close)
           /\ AvgLoss(rows)[n] = <<0, 1>>
           /\ IsNull(rows[n].rsi_14)

(***************************************************************************)
(* Labels: series of about Sma200Window rows, flat but for the last two    *)
(* rows, so that sma_200 exists on the last rows.                          *)
(***************************************************************************)
Levels == {95, 100}

\* A series of n rows at one level, then the two closes given.
LongSeries(n, level, last) ==
    [k \in 1..n |->
        [date |-> FirstDay + k - 1, symbol |-> SeriesSymbol,
         close_price |-> IF k > n - 2 THEN last[k - (n - 2)] ELSE level,
         source |-> "yahoo"]]

InitLabels ==
    \E n \in (Sma200Window - 1)..(Sma200Window + 1) :
      \E level \in Levels, last \in [1..2 -> Closes] :
        /\ daily_prices = LongSeries(n, level, last)
        /\ indicators = <<>>
        /\ latest_signals = <<>>
        /\ indicators_weekly = <<>>
        /\ company_master = <<>>
        /\ watchlist = <<>>
        /\ coverage_report = <<>>
        /\ NotCollected
        /\ NoFaults
        /\ ran = {}

SpecLabels == InitLabels /\ [][BuildIndicators]_vars

\* The number of the row k of rows within the series of its instrument.
RowNumber(rows, k) ==
    Cardinality({j \in 1..k : rows[j].symbol = rows[k].symbol})

LabelsAsStated(rows) ==
    \A k \in 1..Len(rows) :
        LET r == rows[k]
        IN  /\ r.trend_long \in {"UP", "DOWN"}
            /\ r.rsi_state \in {"OVERBOUGHT", "OVERSOLD", "NORMAL"}
            /\ r.trend_long = "UP" <=>
                   (~IsNull(r.sma_50) /\ ~IsNull(r.sma_200)
                      /\ RLt(r.sma_200, r.sma_50))
            /\ RowNumber(rows, k) < Sma200Window => r.trend_long = "DOWN"
            /\ r.rsi_state = "OVERBOUGHT" <=>
                   (~IsNull(r.rsi_14) /\ RLe(<<RsiOverbought, 1>>, r.rsi_14))
            /\ r.rsi_state = "OVERSOLD" <=>
                   (~IsNull(r.rsi_14) /\ RLe(r.rsi_14, <<RsiOversold, 1>>))
            /\ IsNull(r.rsi_14) => r.rsi_state = "NORMAL"

\* C15: on every row of the daily and weekly indicator files trend_long is
\* "UP" exactly when sma_50 and sma_200 are both known and sma_50 > sma_200
\* and "DOWN" otherwise, so "DOWN" on every row before the 200th of its
\* series; rsi_state is "OVERBOUGHT" exactly when rsi_14 >= 70, "OVERSOLD"
\* exactly when rsi_14 <= 30 and "NORMAL" otherwise, an unknown rsi_14
\* included; no row carries any other label.
C15_LabelsCollapseUnknown ==
    LabelsAsStated(indicators) /\ LabelsAsStated(indicators_weekly)

\* A file written from a series of 200 rows or more that holds an "UP" row,
\* a "DOWN" row without sma_200, an "OVERBOUGHT" row, an "OVERSOLD" row and
\* a "NORMAL" row without rsi_14.
C15_Witness ==
    /\ IndicatorsDone
    /\ Len(indicators) >= Sma200Window
    /\ \E k \in 1..Len(indicators) : indicators[k].trend_long = "UP"
    /\ \E k \in 1..Len(indicators) :
          IsNull(indicators[k].sma_200) /\ indicators[k].trend_long = "DOWN"
    /\ \E k \in 1..Len(indicators) : indicators[k].rsi_state = "OVERBOUGHT"
    /\ \E k \in 1..Len(indicators) : indicators[k].rsi_state = "OVERSOLD"
    /\ \E k \in 1..Len(indicators) :
          IsNull(indicators[k].rsi_14) /\ indicators[k].rsi_state = "NORMAL"

(***************************************************************************)
(* Presentation formats, checked under SpecWatchlist.                      *)
(***************************************************************************)
\* C16: the watchlist build_watchlist writes, formatting the columns before
\* it sorts and truncates, is row for row the table obtained by sorting and
\* truncating the unformatted rows and formatting the rows kept.
C16_FormatKeepsRanking ==
    WatchlistDone =>
        watchlist = RankThenFormat(latest_signals, indicators_weekly,
                                   company_master)

\* A truncated watchlist with a listed row that the formats changed and
\* whose score would be another if taken from the formatted columns.
C16_Witness ==
    /\ WatchlistDone
    /\ Len(latest_signals) > TopN
    /\ Len(watchlist) = TopN
    /\ \E i \in 1..Len(watchlist) :
          LET m == RowOf(Merged, watchlist[i].symbol)
          IN  /\ ~IsNull(m.rsi_14)
              /\ watchlist[i].rsi_14 # m.rsi_14
              /\ Score(Formatted(m)) # watchlist[i].score

(***************************************************************************)
(* Instrument boundaries, checked under SpecIndicators.                    *)
(***************************************************************************)
\* The daily and weekly rows build_indicators computes from a raw file that
\* holds the given rows and nothing else.
DailyAlone(raw) == DailyIndicators(StandardFrame(raw))

WeeklyAlone(raw) == WeeklyIndicators(StandardFrame(raw))

\* C17: the daily and weekly indicator rows of an instrument are those
\* computed from the instrument's own raw rows alone, whatever other rows the
\* file holds and wherever they stand; so two raw files that agree on the
\* instrument's rows give it the same indicator rows.  The first row of every
\* instrument has no ret_1d and no rsi_14, and its own close as peak_close.
C17_PerInstrument ==
    IndicatorsDone =>
        /\ \A sym \in SymbolsOf(daily_prices) :
              /\ RowsOf(indicators, sym) = DailyAlone(RowsOf(daily_prices, sym))
              /\ RowsOf(indicators_weekly, sym)
                    = WeeklyAlone(RowsOf(daily_prices, sym))
        /\ \A table \in {indicators, indicators_weekly} :
              \A sym \in SymbolsOf(table) :
                  LET first == RowsOf(table, sym)[1]
                  IN  /\ IsNull(first.ret_1d)
                      /\ IsNull(first.rsi_14)
                      /\ first.peak_close = first.close

\* Two instruments computed in one run, the second one's first row standing
\* right after a row of the first with another close, which a return or a
\* recurrence carried across the boundary would show.
C17_Witness ==
    /\ IndicatorsDone
    /\ \E k \in 2..Len(indicators) :
          /\ indicators[k].symbol # indicators[k - 1].symbol
          /\ indicators[k].close # indicators[k - 1].close
          /\ Len(RowsOf(indicators, indicators[k - 1].symbol)) > 1
          /\ indicators[k].peak_close = indicators[k].close
          /\ IsNull(indicators[k].ret_1d)
          /\ Len(RowsOf(indicators, indicators[k].symbol)) > 1
    /\ Cardinality(SymbolsOf(indicators_weekly)) = 2

(***************************************************************************)
(* The order of the coverage report, checked under SpecCoverage.           *)
(***************************************************************************)
StatusesInStringOrder == <<"LOW_HISTORY", "OK", "STALE">>

StatusRank(status) == CHOOSE i \in 1..3 : StatusesInStringOrder[i] = status

\* C18: in the coverage report every "LOW_HISTORY" row stands before every
\* "OK" row and every "OK" row before every "STALE" row; rows of one status
\* are in ascending company_name order; and the report holds exactly one row
\* for each distinct instrument of the indicator table.
C18_SortedByStatusThenName ==
    CoverageDone =>
        /\ \A g, h \in 1..Len(coverage_report) :
              g < h =>
                LET a == coverage_report[g]
                    b == coverage_report[h]
                IN  /\ StatusRank(a.status) <= StatusRank(b.status)
                    /\ (a.status = b.status /\ ~IsNull(a.company_name)
                           /\ ~IsNull(b.company_name))
                          => NameRank(a.company_name[1]) <= NameRank(b.company_name[1])
        /\ Len(coverage_report) = Cardinality(SymbolsOf(indicators))
        /\ SymbolsOf(coverage_report) = SymbolsOf(indicators)

\* A report whose order the status decides against the names: a
\* "LOW_HISTORY" row named Beta standing before a "STALE" row named Alpha.
C18_Witness ==
    /\ CoverageDone
    /\ Len(coverage_report) = 2
    /\ coverage_report[1].status = "LOW_HISTORY"
    /\ coverage_report[1].company_name = <<"Beta">>
    /\ coverage_report[2].status = "STALE"
    /\ coverage_report[2].company_name = <<"Alpha">>

(***************************************************************************)
(* The loop of collect_prices over symbol lists as build_cse_list.py       *)
(* writes them and as edited by hand: a row may lack its yahoo_ticker, its *)
(* cse_symbol, or both.                                                    *)
(***************************************************************************)
ListRow(base, series, with_cse, with_ticker) ==
    [symbol |-> <<base, 0>>,
     cse_symbol |-> IF with_cse THEN <<base, series>> ELSE Null,
     yahoo_ticker |-> IF with_ticker THEN <<base, series, ".CM">> ELSE Null]

CollectLists ==
    {<<ListRow(1, "N0000", TRUE, TRUE), ListRow(2, "N0000", FALSE, FALSE)>>,
     <<ListRow(1, "P0000", TRUE, TRUE), ListRow(1, "N0000", TRUE, FALSE)>>,
     <<ListRow(2, "N0000", FALSE, TRUE), ListRow(1, "N0000", TRUE, TRUE)>>}

InitCollect ==
    /\ cse_symbols \in CollectLists
    /\ daily_prices = <<>>
    /\ failed_prices = <<>>
    /\ failed_history = <<>>
    /\ ingested = <<>>
    /\ iterations = <<>>
    /\ indicators = <<>>
    /\ latest_signals = <<>>
    /\ indicators_weekly = <<>>
    /\ company_master = <<>>
    /\ watchlist = <<>>
    /\ coverage_report = <<>>
    /\ NoFaults
    /\ ran = {}

SpecCollect == InitCollect /\ [][CollectPrices]_vars

CollectDone == "collect_prices" \in ran

\* The Yahoo requests of an iteration, in the order sent.
YahooRequests(it) == SelectSeq(it.requests, LAMBDA q : q.service = "yahoo")

\* One iteration as stated, for a row of the symbol list; given tells that
\* the row has a cse_symbol, symbol is the text sent to the CSE endpoint.
IterationAsStated(it, row, given, symbol) ==
    LET cands == TickerCandidates(row)
        yahoo == YahooRequests(it)
        n == Len(it.requests)
    IN  \* exactly one outcome
        /\ Len(it.rows) + Len(it.failed) = 1
        \* the candidates in list order
        /\ Len(yahoo) <= Len(cands)
        /\ \A i \in 1..Len(yahoo) :
              it.requests[i] = [service |-> "yahoo", argument |-> cands[i]]
        \* nothing is asked after the first success
        /\ (it.rows # <<>> /\ it.rows[1].source = "yahoo") =>
              /\ n = Len(yahoo)
              /\ it.rows[1].yahoo_ticker = cands[n]
        \* the CSE endpoint only after every candidate, and only if given
        /\ \A i \in 1..n :
              it.requests[i].service = "cse" =>
                  /\ i = n
                  /\ Len(yahoo) = Len(cands)
                  /\ given
                  /\ it.requests[i].argument = symbol
        /\ (it.rows # <<>> /\ it.rows[1].source = "cse") =>
              it.requests[n].service = "cse"
        \* a failure only when every source has been asked
        /\ it.failed # <<>> =>
              /\ Len(yahoo) = Len(cands)
              /\ given => it.requests[n].service = "cse"

\* C19: in a collect_prices run every row of the symbol list ends with
\* exactly one price row or exactly one failure record; the Yahoo
\* candidates are asked in list order and none after the first that
\* answers; the CSE endpoint is asked only after every candidate has
\* failed, and only for a row that gives a cse_symbol; a failure is
\* recorded only when every source asked has failed; and every row of the
\* list is processed, whatever became of the rows before it.
C19_OneOutcomePerSymbol ==
    CollectDone =>
        /\ Len(iterations) = Len(cse_symbols)
        /\ \A k \in 1..Len(iterations) :
              IterationAsStated(iterations[k], cse_symbols[k],
                                ~IsNull(cse_symbols[k].cse_symbol),
                                cse_symbols[k].cse_symbol)
        /\ ingested[Len(ingested)] = Flatten([k \in 1..Len(iterations) |->
                                          iterations[k].rows], Len(iterations))
        /\ failed_prices = Flatten([k \in 1..Len(iterations) |->
                                       iterations[k].failed], Len(iterations))

\* The same with "a cse_symbol is given" read as the code reads it: the
\* text of the cell, that of an empty cell included.
CollectedAsCoded ==
    CollectDone =>
        /\ Len(iterations) = Len(cse_symbols)
        /\ \A k \in 1..Len(iterations) :
              IterationAsStated(iterations[k], cse_symbols[k],
                                CseAttempted(cse_symbols[k]),
                                CseSymbolText(cse_symbols[k]))
        /\ ingested[Len(ingested)] = Flatten([k \in 1..Len(iterations) |->
                                          iterations[k].rows], Len(iterations))
        /\ failed_prices = Flatten([k \in 1..Len(iterations) |->
                                       iterations[k].failed], Len(iterations))

====
